---- MODULE Spec2Model ----
(***************************************************************************)
(* daqrunlogger: a producer publishes RunInfo snapshots onto one queue per *)
(* configured logger (sink); one DAQLoggerWorker thread per logger takes   *)
(* snapshots off its queue, asks the logger's filter_run and, when that    *)
(* answers true, calls the logger's log_run.                               *)
(*                                                                         *)
(* Sinks modelled: the logbook sink (ECLDAQRunLogger), the spreadsheet     *)
(* sink (GoogleSheetsDAQRunLogger), the console sink (StdoutDAQRunLogger)  *)
(* and the shell sink (ShellDAQRunLogger).                                 *)
(*                                                                         *)
(* Time is in seconds.  The loggers read a recorded time t only through    *)
(* the difference datetime.now() - t, so the model keeps each recorded     *)
(* time as its age now - t, saturated at TimeCap (no comparison in the     *)
(* code tells two ages of TimeCap or more apart).  time.sleep(d) inside a  *)
(* handler is part of the handler's action and ages every recorded time.   *)
(***************************************************************************)
EXTENDS Integers, Sequences, FiniteSets, TLC

VARIABLES
    loggers,           \* the configured loggers (daq_logger_daemon.py: loggers)
    queue,             \* queue[w]: the Queue of worker w
    pc,                \* pc[w]: where worker w is in DAQLoggerWorker.run
    info,              \* info[w]: the snapshot worker w holds, NoRun if none
    outcome,           \* outcome[w]: what w's logger last logged or did
    published,         \* number of snapshots published by Publish
    current_run,       \* ECLDAQRunLogger._current_run
    run_cache,         \* ECLDAQRunLogger._run_cache
    last_posted_time,  \* age of ECLDAQRunLogger._last_posted_time
    posts,             \* the entries posted to the logbook, in order
    gs_run_cache,      \* GoogleSheetsDAQRunLogger._run_cache
    last_post,         \* age of GoogleSheetsDAQRunLogger._last_post
    sheet,             \* the spreadsheet: run number -> its row's end-time cell
    printed,           \* what StdoutDAQRunLogger.log_run printed, in order
    last_return_code,  \* ShellDAQRunLogger._last_return_code
    last_pass,         \* last_pass[w]: age of w's latest rate-gate passage
    last_gap,          \* last_gap[w]: seconds between w's two latest passages
    stopped,           \* stopped[w]: DAQLoggerWorker._stopped of worker w
    now,               \* datetime.now(timezone.utc) as OnStartDAQRunLogger reads it
    os_current_run,    \* OnStartDAQRunLogger.current_run
    os_cache,          \* OnStartDAQRunLogger.cache
    os_last_return_code \* OnStartDAQRunLogger._last_return_code

vars == <<loggers, queue, pc, info, outcome, published, current_run, run_cache,
          last_posted_time, posts, gs_run_cache, last_post, sheet, printed,
          last_return_code, last_pass, last_gap, stopped, now, os_current_run,
          os_cache, os_last_return_code>>

eclVars == <<current_run, run_cache, posts>>
gsVars == <<gs_run_cache, sheet>>
timeVars == <<last_posted_time, last_post, last_pass, last_gap>>
osVars == <<os_current_run, os_cache, os_last_return_code>>

----------------------------------------------------------------------------
(* Bounds of the model *)

\* run numbers range over 0..MaxRun
MaxRun == 3
\* Publish publishes at most MaxPublish snapshots
MaxPublish == 3
\* PublishBeforeStop publishes at most MaxStopPublish snapshots
MaxStopPublish == 2
\* deque(maxlen=1000), scaled down so that eviction happens
Capacity == 2

(* Program constants *)

\* ECLDAQRunLogger(min_run=...): the configured floor
min_run == 1
\* log_run: "if dt < 30: time.sleep(30 - dt)"
ECL_WAIT_SECONDS == 30
\* self._api_wait_seconds = 10
api_wait_seconds == 10
\* Queue(): maxsize 0, an unbounded queue
QueueMaxSize == 0
\* self.start_time_utc = datetime.now(tz=timezone.utc): the time the daemon
\* and its loggers are constructed
start_time_utc == 100

None == -1

\* OnStartDAQRunLogger(max_delay=...): the configured delay, in seconds
max_delay == 20
\* Later stops once the clock is this many seconds past start_time_utc
MaxUptime == 40

\* Tick lets this many seconds pass
TickSeconds == 10

\* ages saturate here: the longest interval the code compares an age with
TimeCap == ECL_WAIT_SECONDS

Sinks == {"ecl", "sheets", "stdout", "shell", "onstart"}
RunNumbers == 0..MaxRun

\* RunInfo (the fields the loggers' control flow reads)
RunInfo(n, st, et, bad, dev) ==
    [run_number |-> n, start_time |-> st, end_time |-> et,
     bad_end |-> bad, dev_run |-> dev]

\* no RunInfo: Python's None for _current_run, and a worker holding nothing
NoRun == RunInfo(None, None, None, FALSE, FALSE)

Before == start_time_utc - 10
After == start_time_utc + 10
Ended == start_time_utc + 20

\* the snapshots fed to the logbook tracker.  Per run number: ongoing and
\* started before the tracker, ongoing and started after it, ended well,
\* ended badly, and started from the dev area.  (The fields left fixed are
\* ones no branch reads for that kind of snapshot.)
Snapshots ==
    { s \in { RunInfo(n, st, et, bad, dev) :
                n \in RunNumbers, st \in {Before, After},
                et \in {None, Ended}, bad \in BOOLEAN, dev \in BOOLEAN } :
        /\ s.end_time = None => ~s.bad_end
        /\ s.end_time # None => s.start_time = After
        /\ s.dev_run => s.end_time = None /\ s.start_time = After }

\* the snapshots fed to the on-start logger
OnStartSnapshots ==
    { RunInfo(n, st, et, FALSE, dev) :
        n \in {1, 2}, st \in {Before, After}, et \in {None, Ended},
        dev \in BOOLEAN }

\* the snapshots of the fan-out and rate-gate specifications
FewSnapshots ==
    { RunInfo(n, After, et, FALSE, FALSE) : n \in {1, 2}, et \in {None, Ended} }

----------------------------------------------------------------------------
(* collections.deque(maxlen=Capacity).append *)

DequeAppendUnbounded(d, x) == Append(d, x)

DequeAppendPopFirst(d, x) == IF d = <<>> THEN <<x>> ELSE Append(Tail(d), x)

DequeAppend(d, x) ==
    IF Len(d) < Capacity THEN Append(d, x) ELSE Append(Tail(d), x)

InCache(d, x) == \E i \in 1..Len(d) : d[i] = x

(* the age of a recorded time after d more seconds *)

Aged(a, d) ==
    IF a = None THEN None ELSE IF a + d > TimeCap THEN TimeCap ELSE a + d

\* the rate gate at the top of a log_run: the seconds slept, dt being the
\* age of the recorded time and wait the interval
GateSleep(dt, wait) == IF dt < wait THEN wait - dt ELSE 0

----------------------------------------------------------------------------
(* ECLDAQRunLogger *)

FilterRunECLNoDevCheck(i) ==
    IF i.run_number < min_run THEN "too old"
    ELSE IF InCache(run_cache, i.run_number) THEN "found in cache"
    ELSE "ok"

\* filter_run: "ok" for True, else the reason logged for False
FilterRunECL(i) ==
    IF i.run_number < min_run THEN "too old"
    ELSE IF i.dev_run THEN "dev area"
    ELSE IF InCache(run_cache, i.run_number) THEN "found in cache"
    ELSE "ok"

\* _post_run raises AttributeError at info.end_time.strftime(...) when it is
\* asked for an end-of-run entry of a RunInfo whose end_time is None
PostRunRaises(i, end_of_run) == end_of_run /\ i.end_time = None

\* the entry _post_run posts
PostRun(i, end_of_run) ==
    [form    |-> IF end_of_run THEN "Run End" ELSE "Run Start",
     number  |-> i.run_number,
     crashed |-> IF ~end_of_run THEN "" ELSE IF i.bad_end THEN "Yes" ELSE "No"]

\* what one log_run call does after the rate gate: did is its last log line
Returned(cur, cache, out, did) ==
    [raised |-> FALSE, current_run |-> cur, run_cache |-> cache, posts |-> out,
     did |-> did]

Raised(cur, cache, out) ==
    [raised |-> TRUE, current_run |-> cur, run_cache |-> cache, posts |-> out,
     did |-> "raised"]

SameRunNoEndedCheck(cur, cache, i) ==
    IF i.end_time # None
    THEN Returned(i, DequeAppend(cache, i.run_number),
                  <<PostRun(i, TRUE)>>, "posting end-of-run")
    ELSE Returned(cur, cache, <<>>, "waiting on current run")

SameRunForgetsCache(cur, cache, i) ==
    IF i.end_time # None /\ cur.end_time = None
    THEN Returned(i, cache, <<PostRun(i, TRUE)>>, "posting end-of-run")
    ELSE Returned(cur, cache, <<>>, "waiting on current run")

\* log_run, "if info.run_number == self._current_run.run_number"
SameRun(cur, cache, i) ==
    IF i.end_time # None /\ cur.end_time = None
    THEN IF PostRunRaises(i, TRUE)
         THEN Raised(cur, cache, <<>>)
         ELSE Returned(i, DequeAppend(cache, i.run_number),
                       <<PostRun(i, TRUE)>>, "posting end-of-run")
    ELSE Returned(cur, cache, <<>>, "waiting on current run")

AdoptNewerEndThenStart(cache, i, out) ==
    IF i.end_time # None
    THEN Returned(i, DequeAppend(cache, i.run_number),
                  out \o <<PostRun(i, TRUE), PostRun(i, FALSE)>>, "newer, completed")
    ELSE IF i.start_time < start_time_utc
    THEN Returned(i, cache, out, "skipping start-of-run")
    ELSE Returned(i, cache, out \o <<PostRun(i, FALSE)>>, "posting start-of-run")

AdoptNewerCompletedPostsEnd(cache, i, out) ==
    IF i.end_time # None
    THEN Returned(i, DequeAppend(cache, i.run_number),
                  out \o <<PostRun(i, TRUE)>>, "newer, completed")
    ELSE IF i.start_time < start_time_utc
    THEN Returned(i, cache, out, "skipping start-of-run")
    ELSE Returned(i, cache, out \o <<PostRun(i, FALSE)>>, "posting start-of-run")

AdoptNewerNoStartGuard(cache, i, out) ==
    IF i.end_time # None
    THEN Returned(i, DequeAppend(cache, i.run_number), out, "newer, completed")
    ELSE Returned(i, cache, out \o <<PostRun(i, FALSE)>>, "posting start-of-run")

\* log_run, "this run is newer than our current run": out is what was posted
\* for the previous run
AdoptNewer(cache, i, out) ==
    IF i.end_time # None
    THEN Returned(i, DequeAppend(cache, i.run_number), out, "newer, completed")
    ELSE IF i.start_time < start_time_utc
    THEN Returned(i, cache, out, "skipping start-of-run")
    ELSE IF PostRunRaises(i, FALSE)
    THEN Raised(i, cache, out)
    ELSE Returned(i, cache, out \o <<PostRun(i, FALSE)>>, "posting start-of-run")

\* log_run, "presumably a newer run"
NewerRun(cur, cache, i) ==
    IF cur.end_time = None
    THEN IF PostRunRaises(cur, TRUE)
         THEN Raised(cur, cache, <<>>)
         ELSE AdoptNewer(DequeAppend(cache, cur.run_number), i,
                         <<PostRun(cur, TRUE)>>)
    ELSE AdoptNewer(cache, i, <<>>)

StaleRunAdopted(cur, cache, i) ==
    Returned(i, DequeAppend(cache, i.run_number), <<>>, "not the latest run")

StaleRunNotCached(cur, cache, i) ==
    Returned(cur, cache, <<>>, "not the latest run")

\* log_run, "if info.run_number < self._current_run.run_number"
StaleRun(cur, cache, i) ==
    Returned(cur, DequeAppend(cache, i.run_number), <<>>, "not the latest run")

IngestFirstCompletedCached(cur, cache, i) ==
    IF cur = NoRun
    THEN Returned(i, IF i.end_time # None THEN DequeAppend(cache, i.run_number)
                     ELSE cache, <<>>, "first run")
    ELSE IF i.run_number < cur.run_number THEN StaleRun(cur, cache, i)
    ELSE IF i.run_number = cur.run_number THEN SameRun(cur, cache, i)
    ELSE NewerRun(cur, cache, i)

IngestFirstRunPostsStart(cur, cache, i) ==
    IF cur = NoRun THEN Returned(i, cache, <<PostRun(i, FALSE)>>, "first run")
    ELSE IF i.run_number < cur.run_number THEN StaleRun(cur, cache, i)
    ELSE IF i.run_number = cur.run_number THEN SameRun(cur, cache, i)
    ELSE NewerRun(cur, cache, i)

\* log_run, after the rate gate
Ingest(cur, cache, i) ==
    IF cur = NoRun THEN Returned(i, cache, <<>>, "first run")
    ELSE IF i.run_number < cur.run_number THEN StaleRun(cur, cache, i)
    ELSE IF i.run_number = cur.run_number THEN SameRun(cur, cache, i)
    ELSE NewerRun(cur, cache, i)

----------------------------------------------------------------------------
(* GoogleSheetsDAQRunLogger *)

\* filter_run: "ok" for True, else the reason logged for False
FilterRunGS(i) ==
    IF i.dev_run THEN "dev area"
    ELSE IF InCache(gs_run_cache, i.run_number) THEN "found in cache"
    ELSE "ok"

\* log_run: the end-time cell written for a run
EndTimeCell(i, rows) ==
    IF i.end_time # None THEN "ended"
    ELSE IF \E r \in RunNumbers : rows[r] # "" /\ r > i.run_number THEN "unknown"
    ELSE "running"

----------------------------------------------------------------------------
(* ShellDAQRunLogger as daq_logger_daemon.py configures it *)

\* the attributes of a RunInfo
RunInfoAttrs ==
    {"run_number", "start_time", "configuration", "metadata", "components",
     "end_time", "version", "comments", "bad_end", "dev_run"}

\* ShellDAQRunLogger('echo', ['run_number', 'start_time', 'doesn\'t exist'])
forward_attrs == <<"run_number", "start_time", "doesn't exist">>

\* log_run: getattr(info, attr_name) raises AttributeError for an unknown name
GetattrRaises ==
    \E k \in 1..Len(forward_attrs) : forward_attrs[k] \notin RunInfoAttrs

----------------------------------------------------------------------------
(* OnStartDAQRunLogger, constructed with forward_attrs that RunInfo has *)

\* what filter_run answers and leaves in current_run and cache
Answer(r, cur, cache) == [answer |-> r, current_run |-> cur, cache |-> cache]

\* filter_run: "ok" for True, else the reason for False
FilterRunOnStart(i) ==
    IF i.dev_run THEN Answer("dev area", os_current_run, os_cache)
    ELSE IF InCache(os_cache, i.run_number)
    THEN Answer("known run", os_current_run, os_cache)
    ELSE IF i.end_time # None
    THEN IF os_current_run # NoRun /\ i.run_number = os_current_run.run_number
         THEN Answer("ok", NoRun, DequeAppend(os_cache, i.run_number))
         ELSE Answer("completed run", os_current_run, os_cache)
    ELSE IF os_current_run # NoRun
    THEN IF i.run_number < os_current_run.run_number
         THEN Answer("old run", os_current_run, os_cache)
         ELSE IF i.run_number > os_current_run.run_number
         THEN Answer("ok", i, os_cache)
         ELSE Answer("ok", os_current_run, os_cache)
    ELSE IF now - i.start_time > max_delay
    THEN Answer("started too long ago", os_current_run, os_cache)
    ELSE Answer("ok", i, os_cache)

----------------------------------------------------------------------------
(* DAQLoggerWorker *)

ThreadDiesWithAll(w) ==
    /\ pc' = [x \in Sinks |-> "dead"]
    /\ info' = info

\* an exception leaves run(): the thread of worker w ends, the others go on
ThreadDies(w) ==
    /\ pc' = [pc EXCEPT ![w] = "dead"]
    /\ info' = info

\* queue.task_done() and back to the top of the loop, "while not
\* self._stopped": pc "loop" is a worker past that test, at queue.empty()
TaskDone(w) ==
    /\ pc' = [pc EXCEPT ![w] = IF stopped[w] THEN "stopped" ELSE "loop"]
    /\ info' = [info EXCEPT ![w] = NoRun]

\* Queue.unfinished_tasks: put but not yet task_done
Unfinished(w) == Len(queue[w]) + IF info[w] # NoRun THEN 1 ELSE 0

CanPutOneSlot(q) == Len(q) < 1

\* Queue.put blocks only when maxsize > 0 and the queue is full
CanPut(q) == QueueMaxSize <= 0 \/ Len(q) < QueueMaxSize

\* the producer: "for q in queues: q.put(RunInfo(...))"
Put(s) ==
    /\ \A w \in loggers : CanPut(queue[w])
    /\ queue' = [w \in Sinks |->
                   IF w \in loggers THEN Append(queue[w], s) ELSE queue[w]]
    /\ UNCHANGED <<now, osVars, loggers, stopped, pc, info, outcome, eclVars, gsVars, timeVars,
                   printed, last_return_code>>

DequeueNewest(w) ==
    /\ pc[w] = "loop"
    /\ queue[w] # <<>>
    /\ info' = [info EXCEPT ![w] = queue[w][Len(queue[w])]]
    /\ queue' = [queue EXCEPT ![w] = SubSeq(queue[w], 1, Len(queue[w]) - 1)]
    /\ pc' = [pc EXCEPT ![w] = "filter"]
    /\ UNCHANGED <<now, osVars, loggers, stopped, outcome, published, eclVars, gsVars, timeVars,
                   printed, last_return_code>>

\* run(): the queue is not empty, info = self._queue.get()
Dequeue(w) ==
    /\ pc[w] = "loop"
    /\ queue[w] # <<>>
    /\ info' = [info EXCEPT ![w] = Head(queue[w])]
    /\ queue' = [queue EXCEPT ![w] = Tail(queue[w])]
    /\ pc' = [pc EXCEPT ![w] = "filter"]
    /\ UNCHANGED <<now, osVars, loggers, stopped, outcome, published, eclVars, gsVars, timeVars,
                   printed, last_return_code>>

\* self._logger.filter_run(info): "ok" for True, "raise" when the call raises
\* (StdoutDAQRunLogger defines no filter_run), else the reason for False
FilterRun(w, i) ==
    CASE w = "ecl"    -> FilterRunECL(i)
      [] w = "sheets" -> FilterRunGS(i)
      [] w = "shell"  -> "ok"
      [] w = "stdout" -> "raise"
      [] w = "onstart" -> FilterRunOnStart(i).answer

\* run(): "if not self._logger.filter_run(info): task_done; continue"
Filter(w) ==
    /\ pc[w] = "filter"
    /\ LET r == FilterRun(w, info[w]) IN
         /\ outcome' = [outcome EXCEPT ![w] = r]
         /\ IF r = "raise" THEN ThreadDies(w)
            ELSE IF r = "ok" THEN pc' = [pc EXCEPT ![w] = "log"] /\ info' = info
            ELSE TaskDone(w)
    /\ IF w = "onstart"
       THEN /\ os_current_run' = FilterRunOnStart(info[w]).current_run
            /\ os_cache' = FilterRunOnStart(info[w]).cache
       ELSE UNCHANGED <<os_current_run, os_cache>>
    /\ UNCHANGED <<now, os_last_return_code, loggers, stopped, queue, published,
                   eclVars, gsVars, timeVars, printed, last_return_code>>

\* a rate gate lets worker w through after sleeping slept seconds
GatePassed(w, slept) ==
    /\ last_pass' = [x \in Sinks |-> IF x = w THEN 0 ELSE Aged(last_pass[x], slept)]
    /\ last_gap' = [last_gap EXCEPT ![w] = Aged(last_pass[w], slept)]

\* ECLDAQRunLogger.log_run, then task_done
LogRunECL ==
    LET w == "ecl"
        dt == last_posted_time
        slept == GateSleep(dt, ECL_WAIT_SECONDS)
        r == Ingest(current_run, run_cache, info[w])
    IN  /\ last_posted_time' = Aged(0, slept)
        /\ last_post' = Aged(last_post, slept)
        /\ GatePassed(w, slept)
        /\ current_run' = r.current_run
        /\ run_cache' = r.run_cache
        /\ posts' = posts \o r.posts
        /\ outcome' = [outcome EXCEPT ![w] = r.did]
        /\ IF r.raised THEN ThreadDies(w) ELSE TaskDone(w)
        /\ UNCHANGED <<gsVars, printed, last_return_code>>

LogRunGSStampsAtGate ==
    LET w == "sheets"
        i == info[w]
        dt == last_post
        slept == GateSleep(dt, api_wait_seconds)
    IN  /\ last_posted_time' = Aged(last_posted_time, slept)
        /\ GatePassed(w, slept)
        /\ last_post' = Aged(0, slept)
        /\ \E read_ok \in BOOLEAN, write_ok \in BOOLEAN :
             IF read_ok /\ write_ok
             THEN /\ sheet' = [sheet EXCEPT ![i.run_number] = EndTimeCell(i, sheet)]
                  /\ gs_run_cache' = IF i.end_time # None
                                     THEN DequeAppend(gs_run_cache, i.run_number)
                                     ELSE gs_run_cache
                  /\ outcome' = [outcome EXCEPT ![w] = "logged"]
             ELSE /\ UNCHANGED gsVars
                  /\ outcome' = [outcome EXCEPT ![w] = "dropped"]
        /\ TaskDone(w)
        /\ UNCHANGED <<eclVars, printed, last_return_code>>

\* GoogleSheetsDAQRunLogger.log_run, then task_done
LogRunGS ==
    LET w == "sheets"
        i == info[w]
        dt == last_post
        slept == GateSleep(dt, api_wait_seconds)
    IN  /\ last_posted_time' = Aged(last_posted_time, slept)
        /\ GatePassed(w, slept)
        /\ \E read_ok \in BOOLEAN, write_ok \in BOOLEAN :
             IF read_ok /\ write_ok
             THEN /\ sheet' = [sheet EXCEPT ![i.run_number] = EndTimeCell(i, sheet)]
                  /\ gs_run_cache' = IF i.end_time # None
                                     THEN DequeAppend(gs_run_cache, i.run_number)
                                     ELSE gs_run_cache
                  /\ last_post' = Aged(0, slept)
                  /\ outcome' = [outcome EXCEPT ![w] = "logged"]
             ELSE /\ UNCHANGED gsVars
                  /\ last_post' = Aged(last_post, slept)
                  /\ outcome' = [outcome EXCEPT ![w] = "dropped"]
        /\ TaskDone(w)
        /\ UNCHANGED <<eclVars, printed, last_return_code>>

\* StdoutDAQRunLogger.log_run, then task_done
LogRunStdout ==
    /\ printed' = Append(printed, info["stdout"])
    /\ TaskDone("stdout")
    /\ outcome' = [outcome EXCEPT !["stdout"] = "logged"]
    /\ UNCHANGED <<eclVars, gsVars, timeVars, last_return_code>>

\* ShellDAQRunLogger.log_run, then task_done
LogRunShell ==
    /\ IF GetattrRaises
       THEN /\ ThreadDies("shell")
            /\ outcome' = [outcome EXCEPT !["shell"] = "raised"]
            /\ UNCHANGED last_return_code
       ELSE /\ \E returncode \in {0, 1} : last_return_code' = returncode
            /\ TaskDone("shell")
            /\ outcome' = [outcome EXCEPT !["shell"] = "logged"]
    /\ UNCHANGED <<eclVars, gsVars, timeVars, printed>>

LogRunOnStartForgetsOnFailure ==
    /\ \E returncode \in {0, 1} :
         /\ os_last_return_code' = returncode
         /\ os_cache' = DequeAppend(os_cache, info["onstart"].run_number)
         /\ os_current_run' = NoRun
         /\ outcome' = [outcome EXCEPT !["onstart"] =
                           IF returncode = 0 THEN "completed" ELSE "failed"]
    /\ TaskDone("onstart")
    /\ UNCHANGED <<eclVars, gsVars, timeVars, printed, last_return_code>>

\* OnStartDAQRunLogger.log_run, then task_done
LogRunOnStart ==
    /\ \E returncode \in {0, 1} :
         /\ os_last_return_code' = returncode
         /\ IF returncode = 0
            THEN /\ os_cache' = DequeAppend(os_cache, info["onstart"].run_number)
                 /\ os_current_run' = NoRun
                 /\ outcome' = [outcome EXCEPT !["onstart"] = "completed"]
            ELSE /\ UNCHANGED <<os_cache, os_current_run>>
                 /\ outcome' = [outcome EXCEPT !["onstart"] = "failed"]
    /\ TaskDone("onstart")
    /\ UNCHANGED <<eclVars, gsVars, timeVars, printed, last_return_code>>

\* run(): self._logger.log_run(info); self._queue.task_done()
LogRun(w) ==
    /\ pc[w] = "log"
    /\ CASE w = "ecl"     -> LogRunECL
         [] w = "sheets"  -> LogRunGS
         [] w = "stdout"  -> LogRunStdout
         [] w = "shell"   -> LogRunShell
         [] w = "onstart" -> LogRunOnStart
    /\ IF w = "onstart" THEN TRUE ELSE UNCHANGED osVars
    /\ UNCHANGED <<now, loggers, stopped, queue, published>>

\* stop(): self._stopped = True
Stop(w) ==
    /\ ~stopped[w]
    /\ stopped' = [stopped EXCEPT ![w] = TRUE]
    /\ UNCHANGED <<now, osVars, loggers, queue, pc, info, outcome, published, eclVars, gsVars,
                   timeVars, printed, last_return_code>>

ExitKeepsLooping(w) ==
    /\ pc[w] = "loop"
    /\ stopped[w]
    /\ UNCHANGED vars

\* run(): the worker slept on an empty queue or finished a snapshot, and
\* "while not self._stopped" ends the loop
Exit(w) ==
    /\ pc[w] = "loop"
    /\ stopped[w]
    /\ pc' = [pc EXCEPT ![w] = "stopped"]
    /\ UNCHANGED <<now, osVars, loggers, stopped, queue, info, outcome, published, eclVars,
                   gsVars, timeVars, printed, last_return_code>>

\* time passes: every recorded time ages by d seconds
Elapse(d) ==
    /\ last_posted_time' = Aged(last_posted_time, d)
    /\ last_post' = Aged(last_post, d)
    /\ last_pass' = [w \in Sinks |-> Aged(last_pass[w], d)]
    /\ UNCHANGED <<now, osVars, loggers, stopped, queue, pc, info, outcome, published, eclVars, gsVars,
                   printed, last_return_code, last_gap>>

----------------------------------------------------------------------------
(* Specifications *)

\* the state after construction, with the loggers L configured
InitWith(L) ==
    /\ loggers = L
    /\ queue = [w \in Sinks |-> <<>>]
    /\ pc = [w \in Sinks |-> "loop"]
    /\ info = [w \in Sinks |-> NoRun]
    /\ outcome = [w \in Sinks |-> "none"]
    /\ published = 0
    /\ current_run = NoRun
    /\ run_cache = <<>>
    /\ last_posted_time = TimeCap
    /\ posts = <<>>
    /\ gs_run_cache = <<>>
    /\ last_post = TimeCap
    /\ sheet = [r \in RunNumbers |-> ""]
    /\ printed = <<>>
    /\ last_return_code = None
    /\ last_pass = [w \in Sinks |-> None]
    /\ last_gap = [w \in Sinks |-> None]
    /\ stopped = [w \in Sinks |-> FALSE]
    /\ now = start_time_utc
    /\ os_current_run = NoRun
    /\ os_cache = <<>>
    /\ os_last_return_code = None

Work == \E w \in loggers : Dequeue(w) \/ Filter(w) \/ LogRun(w)

\* one logbook tracker fed every sequence of snapshots, the producer waiting
\* for the worker to catch up
Init == InitWith({"ecl"})

Feed ==
    \E s \in Snapshots :
        Unfinished("ecl") = 0 /\ Put(s) /\ UNCHANGED published

Next == Feed \/ Work

Spec == Init /\ [][Next]_vars

\* the daemon's fan-out: console, shell and spreadsheet loggers
InitFanout == InitWith({"stdout", "shell", "sheets"})

Publish ==
    \E s \in FewSnapshots :
        published < MaxPublish /\ Put(s) /\ published' = published + 1

NextFanout == Publish \/ Work

SpecFanout == InitFanout /\ [][NextFanout]_vars

\* the rate-gated loggers, with calls arriving at any time
InitGate == InitWith({"ecl", "sheets"})

Tick == Elapse(TickSeconds)

NextGate == Publish \/ Work \/ Tick

SpecGate == InitGate /\ [][NextGate]_vars

\* the rate-gated loggers' workers, stopped at any time
InitStop == InitWith({"ecl", "sheets"})

StopWorker == \E w \in loggers : Stop(w)

ExitLoop == \E w \in loggers : Exit(w)

PublishBeforeStop ==
    \E s \in FewSnapshots :
        published < MaxStopPublish /\ Put(s) /\ published' = published + 1

NextStop == PublishBeforeStop \/ Work \/ StopWorker \/ ExitLoop

SpecStop == InitStop /\ [][NextStop]_vars

\* the same with every worker thread scheduled fairly
FairStop ==
    /\ SpecStop
    /\ \A w \in Sinks : WF_vars(Dequeue(w) \/ Filter(w) \/ LogRun(w) \/ Exit(w))

\* one on-start logger, with snapshots arriving at any time
InitOnStart == InitWith({"onstart"})

PublishOnStart ==
    \E s \in OnStartSnapshots :
        published < MaxPublish /\ Put(s) /\ published' = published + 1

\* the clock moves on
Later ==
    /\ now < start_time_utc + MaxUptime
    /\ now' = now + TickSeconds
    /\ UNCHANGED <<osVars, loggers, stopped, queue, pc, info, outcome, published,
                   eclVars, gsVars, timeVars, printed, last_return_code>>

NextOnStart == PublishOnStart \/ Work \/ Later

SpecOnStart == InitOnStart /\ [][NextOnStart]_vars

\* the fan-out with every worker thread scheduled fairly
FairFanout ==
    /\ SpecFanout
    /\ \A w \in Sinks : WF_vars(Dequeue(w) \/ Filter(w) \/ LogRun(w))

----------------------------------------------------------------------------
(* The claims *)

Starts(n) == {k \in 1..Len(posts) : posts[k].form = "Run Start" /\ posts[k].number = n}
Ends(n) == {k \in 1..Len(posts) : posts[k].form = "Run End" /\ posts[k].number = n}
CacheSet == {run_cache[k] : k \in 1..Len(run_cache)}

\* C1: over any sequence of snapshots fed through filter_run and log_run, each
\* run number gets at most one start-of-run post and at most one end-of-run
\* post, also once the cache has evicted the run number.
C1_AtMostOnce ==
    \A n \in RunNumbers : Cardinality(Starts(n)) <= 1 /\ Cardinality(Ends(n)) <= 1

\* C1 witness: the ended current run, whose end-of-run post is out, has been
\* evicted from the cache, and a snapshot of it went through log_run again.
C1_Witness ==
    /\ outcome["ecl"] = "waiting on current run"
    /\ current_run.end_time # None
    /\ Ends(current_run.run_number) # {}
    /\ current_run.run_number \notin CacheSet

\* C2: when a run has both a start-of-run and an end-of-run post, the
\* start-of-run post was made strictly before the end-of-run post.
C2_StartBeforeEnd ==
    \A n \in RunNumbers : \A a \in Starts(n), b \in Ends(n) : a < b

\* C2 witness: some run has both posts.
C2_Witness == \E n \in RunNumbers : Starts(n) # {} /\ Ends(n) # {}

\* C3: a snapshot with dev_run set, or with a run number below min_run, never
\* produces a post: every step that posts is a log_run of a snapshot that is
\* neither.
C3_DevAndFloorNeverPost ==
    [][posts' # posts =>
         /\ pc["ecl"] = "log"
         /\ ~info["ecl"].dev_run
         /\ info["ecl"].run_number >= min_run]_vars

\* C3 witness: a tracker that has posted before has just turned away a dev-area
\* or below-floor snapshot.
C3_Witness ==
    /\ outcome["ecl"] \in {"too old", "dev area"}
    /\ posts # <<>>
    /\ current_run # NoRun

\* C4: the cache never holds more than Capacity entries, and an insertion into
\* a full cache evicts the entry inserted earliest (the others keep their order
\* and the new entry comes last).
C4_BoundedFifo ==
    /\ [](Len(run_cache) <= Capacity)
    /\ [][run_cache' # run_cache =>
            \E x \in RunNumbers :
                run_cache' = Append(IF Len(run_cache) = Capacity
                                    THEN SubSeq(run_cache, 2, Len(run_cache))
                                    ELSE run_cache, x)]_vars

\* C4 witness: the cache is full and its first insertion is no longer in it.
C4_Witness ==
    /\ Len(run_cache) = Capacity
    /\ \E n \in RunNumbers : Ends(n) # {} /\ n \notin CacheSet

\* C5: a sink whose worker has failed does not keep the spreadsheet sink's
\* worker from handling every snapshot put on its queue: whenever that queue
\* has unfinished snapshots, they are eventually all finished.
C5_Isolation == (Unfinished("sheets") > 0) ~> (Unfinished("sheets") = 0)

\* C5 witness: the shell worker died on its first snapshot and the console
\* worker is dead, yet the spreadsheet worker finished all MaxPublish snapshots.
C5_Witness ==
    /\ pc["shell"] = "dead" /\ Len(queue["shell"]) = MaxPublish - 1
    /\ pc["stdout"] = "dead"
    /\ published = MaxPublish
    /\ Unfinished("sheets") = 0
    /\ outcome["sheets"] = "logged"

\* the interval of a rate-gated sink
MinInterval(w) == IF w = "ecl" THEN ECL_WAIT_SECONDS ELSE api_wait_seconds

\* C6: two consecutive passages of a sink's rate gate are never less than the
\* sink's interval apart.
C6_MinIntervalBetweenPassages ==
    \A w \in {"ecl", "sheets"} : last_gap[w] = None \/ last_gap[w] >= MinInterval(w)

\* C7: publishing is enabled whatever the queues hold and whatever the workers
\* are doing, and it puts the snapshot on the queue of every configured logger.
C7_PublishNeverBlocks ==
    /\ [](published < MaxPublish => ENABLED Publish)
    /\ [][published' # published =>
            \E s \in FewSnapshots :
                \A w \in loggers : queue'[w] = Append(queue[w], s)]_vars

\* C7 witness: snapshots were published onto the queue of a dead worker.
C7_Witness ==
    /\ pc["stdout"] = "dead"
    /\ Len(queue["stdout"]) = MaxPublish - 1
    /\ Len(queue["sheets"]) >= 1

\* C8: the console sink answers true to filter_run for every snapshot, and its
\* worker prints every snapshot published to its queue.
C8_ConsoleDeliversAll ==
    /\ outcome["stdout"] # "raise"
    /\ Unfinished("stdout") = 0 => Len(printed) = published

\* C9: log_run never ends in an error, whatever well-formed snapshots arrive.
C9_LogRunNeverRaises == outcome["ecl"] # "raised"

\* C10: a run number leaves the cache only by capacity eviction (it was the
\* oldest entry of a full cache that took an insertion), and a step that posts
\* is never the handling of a snapshot whose run number is in the cache.
C10_SeenOnlyGrows ==
    [][/\ \A n \in CacheSet :
             \/ \E k \in 1..Len(run_cache') : run_cache'[k] = n
             \/ /\ Len(run_cache) = Capacity
                /\ n = Head(run_cache)
                /\ Len(run_cache') = Capacity
       /\ posts' # posts => info["ecl"].run_number \notin CacheSet]_vars

\* C10 witness: a snapshot of a cached run was turned away by the filter after
\* an eviction had happened.
C10_Witness ==
    /\ outcome["ecl"] = "found in cache"
    /\ \E n \in RunNumbers : Ends(n) # {} /\ n \notin CacheSet

----------------------------------------------------------------------------
(* One ingestion by the logbook tracker: a log_run call and what it posted *)

\* the step in which the logbook worker's log_run call ends
IngestStep == pc["ecl"] = "log" /\ pc'["ecl"] # "log"

\* the entries that step posted, in order
Emitted == SubSeq(posts', Len(posts) + 1, Len(posts'))

CacheSetAfter == {run_cache'[k] : k \in 1..Len(run_cache')}

StartOf(n) == [form |-> "Run Start", number |-> n, crashed |-> ""]
EndOf(n, crashed) ==
    [form |-> "Run End", number |-> n, crashed |-> IF crashed THEN "Yes" ELSE "No"]

\* C11: when the current run n has no end time and a snapshot of a newer,
\* ongoing run m, started after the tracker, is ingested, that one ingestion
\* posts End(n, crashed) and then Start(m), puts n in the cache and makes the
\* snapshot the current run.
C11_CrashedEndThenStart ==
    [][/\ IngestStep
       /\ current_run # NoRun
       /\ current_run.end_time = None
       /\ info["ecl"].run_number > current_run.run_number
       /\ info["ecl"].end_time = None
       /\ info["ecl"].start_time >= start_time_utc
       => /\ Emitted = <<EndOf(current_run.run_number, TRUE),
                         StartOf(info["ecl"].run_number)>>
          /\ current_run.run_number \in CacheSetAfter
          /\ current_run' = info["ecl"]]_vars

\* C12: ingesting a snapshot of the current run posts exactly one End, with
\* crashed equal to the snapshot's bad_end, puts the run number in the cache
\* and replaces the current run by the snapshot when the current run has no
\* end time and the snapshot has one; in every other same-run case it posts
\* nothing and leaves the cache as it is.
C12_SameRunEnd ==
    [][/\ IngestStep
       /\ current_run # NoRun
       /\ info["ecl"].run_number = current_run.run_number
       => IF current_run.end_time = None /\ info["ecl"].end_time # None
          THEN /\ Emitted = <<EndOf(info["ecl"].run_number, info["ecl"].bad_end)>>
               /\ info["ecl"].run_number \in CacheSetAfter
               /\ current_run' = info["ecl"]
          ELSE /\ Emitted = <<>>
               /\ run_cache' = run_cache]_vars

\* C12 witness: the current run was just ended by a snapshot of itself that
\* carried bad_end, and the End posted says crashed.
C12_Witness ==
    /\ outcome["ecl"] = "posting end-of-run"
    /\ current_run.end_time # None /\ current_run.bad_end
    /\ current_run.run_number \in CacheSet
    /\ posts # <<>>
    /\ posts[Len(posts)] = EndOf(current_run.run_number, TRUE)

\* an ingestion by a tracker that has no current run yet
FirstIngestStep == IngestStep /\ current_run = NoRun

NewerIngestStep ==
    /\ IngestStep
    /\ current_run # NoRun
    /\ info["ecl"].run_number > current_run.run_number

StaleIngestStep ==
    /\ IngestStep
    /\ current_run # NoRun
    /\ info["ecl"].run_number < current_run.run_number

\* C15 (as claimed): ingesting a snapshot whose run number is lower than the
\* current run's posts nothing and leaves the tracker as it was: the current
\* run is not replaced and the stale run number is not put in the cache.
C15_StaleLeavesTrackerUnchanged ==
    [][StaleIngestStep
       => /\ Emitted = <<>>
          /\ current_run' = current_run
          /\ run_cache' = run_cache]_vars

\* C15 (amended): ingesting a snapshot whose run number is lower than the
\* current run's posts nothing and does not replace the current run, and it
\* appends the stale run number to the cache (evicting the oldest entry of a
\* full cache).
C15_StaleIsCached ==
    [][StaleIngestStep
       => /\ Emitted = <<>>
          /\ current_run' = current_run
          /\ run_cache' = Append(IF Len(run_cache) = Capacity
                                 THEN SubSeq(run_cache, 2, Len(run_cache))
                                 ELSE run_cache, info["ecl"].run_number)]_vars

\* C15 witness: a stale snapshot was ingested, nothing has been posted about
\* its run, and its run number is the newest entry of the cache.
C15_Witness ==
    /\ outcome["ecl"] = "not the latest run"
    /\ run_cache # <<>>
    /\ run_cache[Len(run_cache)] < current_run.run_number
    /\ Ends(run_cache[Len(run_cache)]) = {}

\* C16: a tracker with no current run adopts the ingested snapshot as its
\* current run and posts nothing; and the first run never gets a Start later:
\* a Start is only ever posted for a run number above the current run's, and
\* the current run's number never goes down.
C16_EmptyAdoptsSilently ==
    [][/\ FirstIngestStep => Emitted = <<>> /\ current_run' = info["ecl"]
       /\ \A k \in 1..Len(Emitted) :
              Emitted[k].form = "Run Start"
                  => /\ current_run # NoRun
                     /\ Emitted[k].number > current_run.run_number
       /\ current_run # NoRun
              => current_run'.run_number >= current_run.run_number]_vars

\* C16 witness: a fresh tracker adopted an ongoing run that started after the
\* tracker did, and posted nothing.
C16_Witness ==
    /\ outcome["ecl"] = "first run"
    /\ current_run.end_time = None
    /\ current_run.start_time >= start_time_utc
    /\ posts = <<>>

\* C17: a Start is posted for a run only by the ingestion that adopts it as a
\* newer current run while it has no end time, and only if it started no
\* earlier than the tracker did; and a newer run without end time that started
\* before the tracker did is adopted as the current run without any Start.
C17_StartOnlyForObservedStart ==
    [][/\ \A k \in 1..Len(Emitted) :
              Emitted[k].form = "Run Start"
                  => /\ NewerIngestStep
                     /\ Emitted[k].number = info["ecl"].run_number
                     /\ info["ecl"].end_time = None
                     /\ info["ecl"].start_time >= start_time_utc
                     /\ current_run' = info["ecl"]
       /\ (/\ NewerIngestStep
           /\ info["ecl"].end_time = None
           /\ info["ecl"].start_time < start_time_utc)
              => /\ \A k \in 1..Len(Emitted) : Emitted[k].form # "Run Start"
                 /\ current_run' = info["ecl"]]_vars

\* what the loggers of the fan-out keep: changed only by their log_run
Delivered(w) ==
    CASE w = "sheets" -> <<sheet, gs_run_cache>>
      [] w = "stdout" -> <<printed>>
      [] w = "shell"  -> <<last_return_code>>
      [] w = "ecl"    -> <<current_run, run_cache, posts>>
      [] w = "onstart" -> <<os_last_return_code>>

\* C18: a worker handles its queue's snapshots one at a time and in the order
\* they were put: a snapshot is taken only from the head of the queue, only
\* by a worker holding none (the earlier one's filter_run and log_run are
\* over); filter_run is entered only by taking a snapshot, so once for each;
\* and log_run is entered exactly when filter_run answered true, for that
\* same snapshot, and only log_run changes what the logger keeps.
C18_OneAtATimeInOrder ==
    [][\A w \in loggers :
        /\ queue'[w] # queue[w]
             => \/ \E s \in FewSnapshots : queue'[w] = Append(queue[w], s)
                \/ /\ queue[w] # <<>>
                   /\ queue'[w] = Tail(queue[w])
                   /\ info'[w] = Head(queue[w])
                   /\ info[w] = NoRun /\ pc[w] = "loop" /\ pc'[w] = "filter"
        /\ (pc'[w] = "filter" /\ pc[w] # "filter")
             => pc[w] = "loop" /\ queue'[w] # queue[w]
        /\ (pc[w] = "filter" /\ pc'[w] # "filter")
             => /\ pc'[w] = "log" <=> outcome'[w] = "ok"
                /\ pc'[w] = "log" => info'[w] = info[w]
        /\ (pc'[w] = "log" /\ pc[w] # "log") => pc[w] = "filter"
        /\ Delivered(w)' # Delivered(w) => pc[w] = "log" /\ pc'[w] # "log"]_vars

\* C18 witness: the spreadsheet worker has logged one snapshot, has then had
\* filter_run turn the next one away, and a third is still waiting its turn.
C18_Witness ==
    /\ outcome["sheets"] = "found in cache"
    /\ gs_run_cache # <<>>
    /\ Len(queue["sheets"]) = 1
    /\ published = MaxPublish

\* C19: once stop() has been called on a worker, the worker thread eventually
\* ends; and stop() interrupts nothing: it changes only the flag, and a worker
\* that is in filter_run or log_run when the flag is set leaves it only by
\* that call's own completion, log_run recording its result and the snapshot
\* being marked done.
C19_StopEndsWorker ==
    /\ \A w \in {"ecl", "sheets"} : stopped[w] ~> (pc[w] \in {"stopped", "dead"})
    /\ [][\A w \in loggers :
            /\ stopped'[w] # stopped[w]
                 => /\ pc' = pc /\ info' = info /\ queue' = queue
                    /\ Delivered(w)' = Delivered(w)
            /\ (pc'[w] = "stopped" /\ pc[w] # "stopped")
                 => /\ stopped[w]
                    /\ pc[w] = "log" => outcome'[w] # "ok" /\ info'[w] = NoRun
                    /\ pc[w] = "filter"
                         => outcome'[w] \notin {"ok", "raise"} /\ info'[w] = NoRun
                    /\ pc[w] = "loop" => info[w] = NoRun]_vars

\* C19 witness: stop() came while the spreadsheet worker was inside log_run
\* (the previous log_run wrote a row, filter_run has let the next snapshot
\* through), and the logbook worker, not stopped, goes on.
C19_Witness ==
    /\ stopped["sheets"] /\ pc["sheets"] = "log"
    /\ \E r \in RunNumbers : sheet[r] # ""
    /\ ~stopped["ecl"] /\ pc["ecl"] = "log"

\* C20: when a backend call of the spreadsheet logger's log_run fails, the
\* snapshot is dropped and not retried (it is marked done and no longer
\* held), and the logger is left as it was: sheet and cache unchanged and the
\* recorded last-post time not moved (it only ages by the gate's sleep), so
\* that filter_run still accepts a snapshot of that run.
C20_BackendFailureDrops ==
    [][(pc["sheets"] = "log" /\ outcome'["sheets"] = "dropped")
       => /\ sheet' = sheet
          /\ gs_run_cache' = gs_run_cache
          /\ last_post' = Aged(last_post, GateSleep(last_post, api_wait_seconds))
          /\ info'["sheets"] = NoRun
          /\ Len(queue'["sheets"]) = Len(queue["sheets"])
          /\ ~info["sheets"].dev_run
          /\ \A k \in 1..Len(gs_run_cache') :
                 gs_run_cache'[k] # info["sheets"].run_number]_vars

\* C20 witness: a log_run went past the rate gate and none has succeeded (the
\* last-post time is the initial one, nothing is written or cached), and
\* filter_run has accepted a snapshot of an ended run again.
C20_Witness ==
    /\ last_pass["sheets"] # None
    /\ last_post = TimeCap
    /\ gs_run_cache = <<>>
    /\ \A r \in RunNumbers : sheet[r] = ""
    /\ pc["sheets"] = "log"
    /\ info["sheets"].end_time # None

\* C21: every _post_run call that log_run makes ends in one write to the
\* logbook, and every write has a rate-gate passage of its own: an ingestion
\* goes through the gate once, so it makes no more than one write, the End of
\* the previous run and the Start of the new one included.
C21_EveryWriteGated ==
    [][IngestStep
       => /\ outcome'["ecl"] # "raised"
          /\ last_pass'["ecl"] = 0
          /\ Len(Emitted) <= 1]_vars

\* C24: the current run's number never goes down, the current run is replaced
\* by a snapshot of another run only if that run's number is higher, and every
\* run number in the cache is at most the current run's.
C24_CurrentRunMonotone ==
    /\ [](\A n \in CacheSet : current_run # NoRun /\ n <= current_run.run_number)
    /\ [][(current_run # NoRun /\ current_run' # current_run)
            => /\ current_run'.run_number >= current_run.run_number
               /\ current_run' = info["ecl"]
               /\ current_run'.run_number # current_run.run_number
                    => info["ecl"].run_number > current_run.run_number]_vars

\* C24 witness: a stale snapshot went through log_run after newer runs had
\* been adopted: the cache holds a lower number than the current run's, next
\* to the number of an earlier current run that was ended.
C24_Witness ==
    /\ outcome["ecl"] = "not the latest run"
    /\ Len(run_cache) = Capacity
    /\ run_cache[Capacity] < run_cache[1]
    /\ Ends(run_cache[1]) # {}
    /\ run_cache[1] < current_run.run_number

----------------------------------------------------------------------------
(* The on-start logger *)

\* the step in which the on-start logger's filter_run answers, and answers True
OnStartFilterStep == pc["onstart"] = "filter" /\ pc'["onstart"] # "filter"
OnStartAccepts == OnStartFilterStep /\ pc'["onstart"] = "log"

\* the step in which the on-start worker's log_run call ends
OnStartLogStep == pc["onstart"] = "log" /\ pc'["onstart"] # "log"

OsCacheSet == {os_cache[k] : k \in 1..Len(os_cache)}
OsCacheSetAfter == {os_cache'[k] : k \in 1..Len(os_cache')}

\* C22: filter_run accepts a snapshot of an ongoing run only if the run
\* started within the last max_delay seconds, both when the logger holds no
\* current run and when the snapshot is of a run newer than the one it holds.
C22_AcceptsOnlyRecentStart ==
    [][(/\ OnStartAccepts
        /\ info["onstart"].end_time = None
        /\ \/ os_current_run = NoRun
           \/ info["onstart"].run_number > os_current_run.run_number)
       => now - info["onstart"].start_time <= max_delay]_vars

\* the logger holds a current run
Held == os_current_run # NoRun

\* filter_run is answering for a snapshot of the held run (not a dev-area one)
OfHeldRun ==
    /\ OnStartFilterStep
    /\ info["onstart"].run_number = os_current_run.run_number
    /\ ~info["onstart"].dev_run

\* log_run ended with exit code 0
OnStartSucceeds == OnStartLogStep /\ os_last_return_code' = 0

====
